---- MODULE Spec2Model ----
(***************************************************************************)
(* Model of the NRI NOW stealth scraper (src/nrinow/stealth_scraper.py):   *)
(* the paginated search crawl (search_articles), the homepage crawl        *)
(* (find_articles / scrape_articles) and the per-article extraction        *)
(* (extract_article, _extract_images, _extract_comments).                  *)
(*                                                                         *)
(* Pages are given by what the code reads from them: the hrefs of the      *)
(* anchors in document order, the pagination block, the meta tags, the     *)
(* img tags, the comment items.  A href is a record of the features the    *)
(* code tests on the string; two hrefs are the same string iff the records *)
(* are equal.                                                              *)
(***************************************************************************)
EXTENDS Integers, Sequences, FiniteSets, TLC

VARIABLES
    pc,                     \* position of the running operation
    op,                     \* "none" | "search" | "scrape"
    max_articles,           \* argument of search_articles / scrape_articles
    max_pages,              \* argument of search_articles
    all_article_urls,       \* search_articles: accumulated URL list
    page_num,               \* search_articles: number of the page to fetch next
    article_urls_to_scrape, \* the scheduled URLs (after truncation)
    results,                \* the records appended so far
    returned,               \* the list handed back to the caller (at "done")
    pagesFetched,           \* history: result pages passed to get_page_stealthily
    fetchLog,               \* history: one entry per extract_article call
    lastEvt,                \* history: the last thing the crawl loop did:
                            \*   "fetch" (it called get_page_stealthily or
                            \*   extract_article), "delay" (it called
                            \*   human_delay), "none" (nothing yet)
    undelayed,              \* history: the loop made a fetch right after
                            \*   another fetch, with no human_delay of its own
                            \*   in between
    seenAgain,              \* history: a result page offered an accumulated URL
    pageFailed,             \* history: a result page failed to load
    lastPass,               \* history: the pass of the page loop just made:
                            \*   page number, new URLs found, what the page
                            \*   showed of pagination (NoPass outside the loop)
    fin,                    \* input of the extraction function under check
    fout,                   \* its result
    max_posts,              \* argument of get_all_posts
    all_posts,              \* get_all_posts: the posts accumulated
    api_page,               \* get_all_posts: its local page, the number of
                            \*   the API page to ask next
    apiLog                  \* history: one entry per get_posts call

vars == <<pc, op, max_articles, max_pages, all_article_urls, page_num,
          article_urls_to_scrape, results, returned, pagesFetched, fetchLog,
          lastEvt, undelayed, seenAgain, pageFailed, lastPass, fin,
          fout, max_posts, all_posts, api_page, apiLog>>

\* the variables of NRINowScraper.get_all_posts
postsVars == <<max_posts, all_posts, api_page, apiLog>>

(***************************************************************************)
(* Bounds of the model.                                                    *)
(***************************************************************************)
NumUrls == 8            \* distinct article URLs of the site
MaxArticlesBound == 3   \* max_articles ranges over 0..MaxArticlesBound
MaxPagesBound == 3      \* max_pages ranges over 0..MaxPagesBound
ScenarioArticles == 10  \* the largest max_articles of the long searches
ScenarioPages == 5      \* the largest max_pages of the long searches
MaxPostsBound == 4      \* max_posts ranges over None and 0..MaxPostsBound
PostsPerPage == 2       \* an API page holds at most this many posts
ApiPages == 3           \* the API has at most this many pages of posts

(***************************************************************************)
(* Program constants.                                                      *)
(***************************************************************************)
PerPage == 7            \* nominal number of results of a full page
HomepageLimit == 10     \* find_articles returns at most this many URLs

None == "none"

Min(a, b) == IF a < b THEN a ELSE b

Range(s) == {s[i] : i \in DOMAIN s}

NoDup(s) == \A i, j \in DOMAIN s : i # j => s[i] # s[j]

Prefix(s, n) == SubSeq(s, 1, Min(n, Len(s)))

(***************************************************************************)
(* Hrefs.  site: the string starts with 'https://www.nrinow.news/';        *)
(* yr: the path segment that stands where articles have their year:       *)
(* "2025", "2024", "2019" (a year), "2025-budget" (a slug that starts with *)
(* 202), or "none";                                                        *)
(* pg: n > 0 when it contains '/page/n/', 0 when it has no '/page/';       *)
(* q: it contains '?s='; frag: the fragment it ends with; id: the rest.    *)
(***************************************************************************)
Href(site, yr, pg, q, frag, id) ==
    [site |-> site, yr |-> yr, pg |-> pg, q |-> q, frag |-> frag, id |-> id]

Art(i) == Href(TRUE, "2025", 0, FALSE, "", i)

Art2024(i) == Href(TRUE, "2024", 0, FALSE, "", i)

CommentsAnchor(i) == Href(TRUE, "2025", 0, FALSE, "#comments", i)

RespondAnchor(i) == Href(TRUE, "2025", 0, FALSE, "#respond", i)

Foreign(i) == Href(FALSE, "2025", 0, FALSE, "", i)

NoYear(i) == Href(TRUE, "none", 0, FALSE, "", i)

Art2019(i) == Href(TRUE, "2019", 0, FALSE, "", i)

BudgetPage(i) == Href(TRUE, "2025-budget", 0, FALSE, "", i)

\* the second page of a paginated article
PagedArt(i) == Href(TRUE, "2025", 2, FALSE, "", i)

PageLink(n, q) == Href(TRUE, "none", n, q, "", 0)

\* '/202' in href
Has202(h) == h.yr \in {"2025", "2024", "2025-budget"}

\* '/2025/' in href
Has2025(h) == h.yr = "2025"

\* f'/page/{n}/' in href
HasPageN(h, n) == h.pg = n

\* '/page/' in href
HasPage(h) == h.pg # 0

(***************************************************************************)
(* Article pages.  A text is the string get_text() returns, given by an    *)
(* identity and its length, and by the kind of element it is the text of:  *)
(* "element" (a content element of the page), "comment-content" (the       *)
(* div.comment-content of a comment), "comment-article" (the <article> of  *)
(* a comment).  Every text of length 0 is the empty string, EmptyText.     *)
(***************************************************************************)
MinContent == 100       \* a body candidate must be longer than this
NumSelectors == 8       \* length of content_selectors
MaxMatches == 2         \* at most this many content elements on a page

EmptyText == [of |-> "element", id |-> 0, len |-> 0]

TextOf(of, id, len) ==
    IF len = 0 THEN EmptyText ELSE [of |-> of, id |-> id, len |-> len]

Text(id, len) == TextOf("element", id, len)

NoElem == [of |-> "none", id |-> -1, len |-> -1]

\* content_selectors, in the order tried
content_selectors ==
    << ".pf-content", ".td-post-content", ".entry-content", ".post-content",
       ".article-content", "[class*=content]", "article", ".post" >>

\* len(content) > 100
SubstantialAtThreshold(text) == text.len >= MinContent

Substantial(text) == text.len > MinContent

\* lines 579-582
ExtractTitleEmpty(dom) == IF dom.title = None THEN "" ELSE dom.title

ExtractTitle(dom) == IF dom.title = None THEN "No title found" ELSE dom.title

\* lines 609-610, on the soup the body loop has left
ExtractAuthor(dom) == IF dom.author = None THEN "Unknown" ELSE dom.author

\* lines 613-616, on the soup the body loop has left
ExtractDate(dom) == IF dom.date = None THEN "Unknown" ELSE dom.date

(***************************************************************************)
(* Image URLs.  form: "https" | "http" (absolute), "proto" ('//host/p'),   *)
(* "root" ('/p'), "rel" ('p'), "empty" (the empty string), "absent" (the   *)
(* attribute is missing); host: "" for "root" and "rel"; ui: the string    *)
(* contains one of skip_patterns.                                          *)
(***************************************************************************)
MinImgDim == 50         \* images narrower or lower than this are skipped
NumImgPaths == 2        \* distinct image paths
MaxImgs == 2            \* img tags of a page

SiteHost == "www.nrinow.news"

CdnHost == "cdn.example.com"

ImgUrl(form, host, path, ui) ==
    [form |-> form, host |-> host, path |-> path, ui |-> ui]

NoUrl == ImgUrl("absent", "", 0, FALSE)

EmptyUrl == ImgUrl("empty", "", 0, FALSE)

IsAbsolute(u) == u.form \in {"https", "http"}

\* A missing attribute (None) and the empty string are falsy.
Falsy(u) == u.form \in {"absent", "empty"}

\* lines 270-274: 'https:' + src for '//...', urljoin(base_url, src) for '/...'
MakeAbsolute(src, base_host) ==
    IF src.form = "proto" THEN [src EXCEPT !.form = "https"]
    ELSE IF src.form = "root" THEN [src EXCEPT !.form = "https", !.host = base_host]
    ELSE src

\* A width/height attribute: kind "absent", "empty", "bad" (int() raises
\* ValueError) or "int" with its value.
Dim(kind, val) == [kind |-> kind, val |-> val]

NoDim == Dim("absent", 0)

Px(n) == Dim("int", n)

\* lines 279-285: width and height both truthy, both parse, one is below 50
TooSmall(w, h) ==
    /\ w.kind \in {"int", "bad"} /\ h.kind \in {"int", "bad"}
    /\ w.kind = "int" /\ h.kind = "int"
    /\ (w.val < MinImgDim \/ h.val < MinImgDim)

\* _get_image_caption: figcaption of the enclosing figure, else the first
\* caption-classed element of the parent, else ""
ImageCaption(img) ==
    IF img.figcaption # None THEN img.figcaption
    ELSE IF img.sibcaption # None THEN img.sibcaption
    ELSE ""

FeaturedRecord(content) ==
    [src |-> content, alt |-> "Featured Image", title |-> "Featured Image",
     width |-> NoDim, height |-> NoDim, class |-> "featured-image",
     caption |-> "Featured Image"]

\* _get_featured_image: <<record>>, or <<>> for None
GetFeaturedImageTwitterFirst(meta) ==
    IF ~Falsy(meta.tw) THEN <<FeaturedRecord(meta.tw)>>
    ELSE IF ~Falsy(meta.og) THEN <<FeaturedRecord(meta.og)>>
    ELSE <<>>

GetFeaturedImage(meta) ==
    IF ~Falsy(meta.og) THEN <<FeaturedRecord(meta.og)>>
    ELSE IF ~Falsy(meta.tw) THEN <<FeaturedRecord(meta.tw)>>
    ELSE <<>>

\* any(existing['src'] == src for existing in images)
AlreadyListed(images, src) == \E i \in DOMAIN images : images[i].src = src

ImageData(img, src) ==
    [src |-> src, alt |-> img.alt, title |-> img.title, width |-> img.width,
     height |-> img.height, class |-> img.class, caption |-> ImageCaption(img)]

\* The loop over img_tags (lines 263-310) from tag k on.
RECURSIVE ImageLoop(_, _, _, _)
ImageLoop(tags, k, images, base_host) ==
    IF k > Len(tags) THEN images
    ELSE LET img == tags[k]
             raw == IF ~Falsy(img.src) THEN img.src ELSE img.dsrc
             src == MakeAbsolute(raw, base_host)
         IN  IF \/ Falsy(raw)
                \/ TooSmall(img.width, img.height)
                \/ src.ui
                \/ AlreadyListed(images, src)
             THEN ImageLoop(tags, k + 1, images, base_host)
             ELSE ImageLoop(tags, k + 1, Append(images, ImageData(img, src)), base_host)

\* img_tags (lines 254-261).  dom.areas is the number of content areas: with
\* none, every img of the page; with one, the imgs inside it; with two, one
\* nested in the other ('article' around '.entry-content'), the imgs once
\* per area.
ImgTags(dom) ==
    IF dom.areas = 0 THEN dom.outsideImgs \o dom.imgs
    ELSE IF dom.areas = 1 THEN dom.imgs
    ELSE dom.imgs \o dom.imgs

ExtractImages(dom, base_host) ==
    ImageLoop(ImgTags(dom), 1, GetFeaturedImage(dom.meta), base_host)

(***************************************************************************)
(* Comments.  An item is a li.comment of ol.comment-list, in document      *)
(* order: id is its id attribute without 'comment-' ("" when it has none); *)
(* article: it holds an <article>; cite, time: the display texts or None;  *)
(* content: the text of div.comment-content, or NoContent; nested: it has  *)
(* an ancestor ul.children.  A comment text has an identity, a length and  *)
(* the flag phrase: it contains one of the skipped form phrases.  generic  *)
(* holds the texts of the elements outside the list that the selectors of  *)
(* comment plugins ('.comment-text', '.comment-body') would match.         *)
(***************************************************************************)
MinCommentLen == 5      \* shorter comment texts are skipped
MaxItems == 2           \* li.comment items of a page

CText(tid, len, phrase) == [tid |-> tid, len |-> len, phrase |-> phrase]

NoContent == CText(-1, -1, FALSE)

\* _get_comment_count; countTitle / countMeta are the first number of the
\* h4.td-comments-title text / of the comment meta link, -1 when there is none
GetCommentCount(c) ==
    IF c.countTitle >= 0 THEN c.countTitle
    ELSE IF c.section /\ c.list THEN Len(c.items)
    ELSE IF c.countMeta >= 0 THEN c.countMeta
    ELSE 0

Sentinel(msg, count) ==
    [text |-> [msg |-> msg, count |-> count], author |-> "System", date |-> "N/A",
     length |-> 0, type |-> "metadata"]

\* lines 427-431
SkippedText(t) == t.len = 0 \/ t.len < MinCommentLen \/ t.phrase

\* lines 446-447
DuplicateComment(comments, comment_id, comment_text) ==
    \E i \in DOMAIN comments :
        comments[i].comment_id = comment_id \/ comments[i].text = comment_text

CommentData(item) ==
    [text |-> item.content,
     author |-> IF item.cite = None THEN "Anonymous" ELSE item.cite,
     date |-> IF item.time = None THEN "Unknown" ELSE item.time,
     length |-> item.content.len,
     type |-> IF item.nested THEN "reply" ELSE "comment",
     comment_id |-> item.id]

\* The loop over comment_items (lines 396-454) from item k on.
RECURSIVE CommentLoop(_, _, _)
CommentLoop(items, k, comments) ==
    IF k > Len(items) THEN comments
    ELSE LET item == items[k]
         IN  IF \/ ~item.article
                \/ item.content = NoContent
                \/ SkippedText(item.content)
                \/ DuplicateComment(comments, item.id, item.content)
             THEN CommentLoop(items, k + 1, comments)
             ELSE CommentLoop(items, k + 1, Append(comments, CommentData(item)))

\* lines 456-463
NoneExtractedEmpty(c) == <<>>

NoneExtracted(c) == << Sentinel("No comments extracted", GetCommentCount(c)) >>

\* _extract_comments
ExtractCommentsWithGeneric(c) ==
    LET generic == [i \in DOMAIN c.generic |->
                       [text |-> c.generic[i], author |-> "Anonymous",
                        date |-> "Unknown", length |-> c.generic[i].len,
                        type |-> "comment", comment_id |-> ""]]
    IN  IF ~c.section
        THEN << Sentinel("No comments section found", GetCommentCount(c)) >>
        ELSE IF ~c.list
        THEN << Sentinel("No comment list found", GetCommentCount(c)) >>
        ELSE LET comments == CommentLoop(c.items, 1, <<>>) \o generic
             IN  IF comments = <<>> THEN NoneExtracted(c) ELSE comments

ExtractComments(c) ==
    IF ~c.section THEN << Sentinel("No comments section found", GetCommentCount(c)) >>
    ELSE IF ~c.list THEN << Sentinel("No comment list found", GetCommentCount(c)) >>
    ELSE LET comments == CommentLoop(c.items, 1, <<>>)
         IN  IF comments = <<>> THEN NoneExtracted(c) ELSE comments

(***************************************************************************)
(* extract_article.  An article page (dom) is given by what the code reads *)
(* of it:                                                                  *)
(*   title, author, date: the display text of the element, or None;        *)
(*   blocks: the content elements in document order, none inside another.  *)
(*     A block has sel (1..5: its class is that of content selector sel;   *)
(*     6: another class that contains 'content'; 7: it is an <article>;    *)
(*     8: its class is 'post'), text (its text without its script, style,  *)
(*     nav and aside descendants), imgs (its img tags outside these) and   *)
(*     asideImgs (its img tags inside them, which come last);              *)
(*   meta: the og:image / twitter:image contents;                          *)
(*   outsideImgs: the img tags outside every block, which come first;      *)
(*   comments: the comment markup (section, list, items, counts), which    *)
(*     holds no img;                                                       *)
(*   inAside: for the author element, the date element and the comment     *)
(*     markup, the block inside whose script/style/nav/aside it lies, or 0 *)
(*     when it lies outside every block (the comment markup then stands    *)
(*     after the last block).                                              *)
(* The body loop removes the script/style/nav/aside descendants of every   *)
(* element it visits (lines 600-602), so what stands inside them is gone   *)
(* for the selectors tried later and for the author, date, image and       *)
(* comment extraction.                                                     *)
(***************************************************************************)
Block(sel, text, imgs, asideImgs) ==
    [sel |-> sel, text |-> text, imgs |-> imgs, asideImgs |-> asideImgs]

Nowhere == [author |-> 0, date |-> 0, comments |-> 0]

\* the block is an element that content selector k selects: the classes of
\* selectors 1..5 all contain 'content', which is what selector 6 asks for
Matches(b, k) == b.sel = k \/ (k = 6 /\ b.sel \in 1..5)

\* get_text(separator=' ', strip=True) of the <article> of a comment item:
\* the cite, the time and the comment text, joined by single spaces
ArticleText(item) ==
    LET parts == << IF item.cite = None THEN 0 ELSE Len(item.cite),
                    IF item.time = None THEN 0 ELSE Len(item.time),
                    IF item.content.len < 0 THEN 0 ELSE item.content.len >>
        filled == {i \in 1..3 : parts[i] > 0}
    IN  IF filled = {} THEN EmptyText
        ELSE TextOf("comment-article", item.content.tid,
                    parts[1] + parts[2] + parts[3] + Cardinality(filled) - 1)

\* the element of the comment markup that content selector k selects, as
\* <<text>>, or <<>>: the div.comment-content of an item, inside an
\* <article> or not, has a class that contains 'content' (selector 6) and
\* the <article> of an item is an article (selector 7); the items are in
\* document order
CommentElement(items, k) ==
    LET hits == {i \in DOMAIN items :
                    \/ k = 7 /\ items[i].article
                    \/ k = 6 /\ items[i].content.len >= 0}
    IN  IF hits = {} THEN <<>>
        ELSE LET i == CHOOSE j \in hits : \A h \in hits : j <= h
             IN  IF k = 7 THEN <<ArticleText(items[i])>>
                 ELSE <<TextOf("comment-content", items[i].content.tid,
                               items[i].content.len)>>

\* soup.select_one(selector k) once the blocks in removed have lost their
\* script/style/nav/aside descendants: the first match in document order,
\* as [block, text] (block = 0 for an element of the comment markup), or
\* NoMatch
NoMatch == [block |-> -1, text |-> NoElem]

SelectOne(dom, k, removed) ==
    LET hits == {i \in DOMAIN dom.blocks : Matches(dom.blocks[i], k)}
        first == IF hits = {} THEN 0
                 ELSE CHOOSE j \in hits : \A h \in hits : j <= h
        after == IF dom.inAside.comments = 0 THEN Len(dom.blocks)
                 ELSE dom.inAside.comments
        celem == IF dom.inAside.comments \in removed THEN <<>>
                 ELSE CommentElement(dom.comments.items, k)
    IN  IF first # 0 /\ (celem = <<>> \/ first <= after)
        THEN [block |-> first, text |-> dom.blocks[first].text]
        ELSE IF celem # <<>> THEN [block |-> 0, text |-> celem[1]]
        ELSE NoMatch

\* The for loop over content_selectors (lines 596-606) from selector k on:
\* content is the text kept so far, removed the blocks visited so far,
\* tried what select_one gave for each selector tried so far (NoElem for
\* no element).
RECURSIVE BodyChain(_, _, _, _, _)
BodyChain(dom, k, content, removed, tried) ==
    IF k > NumSelectors
    THEN [content |-> content, removed |-> removed, tried |-> tried]
    ELSE LET content_elem == SelectOne(dom, k, removed)
             text == content_elem.text
             visited == IF content_elem.block > 0
                        THEN removed \cup {content_elem.block} ELSE removed
         IN  IF content_elem = NoMatch
             THEN BodyChain(dom, k + 1, content, removed, Append(tried, NoElem))
             ELSE IF Substantial(text)
             THEN [content |-> text, removed |-> visited,
                   tried |-> Append(tried, text)]
             ELSE BodyChain(dom, k + 1, text, visited, Append(tried, text))

BodyLoop(dom) == BodyChain(dom, 1, EmptyText, {}, <<>>)

\* lines 596-606
ExtractContentOnlySubstantial(dom) ==
    LET content == BodyLoop(dom).content
    IN  IF Substantial(content) THEN content ELSE EmptyText

ExtractContent(dom) == BodyLoop(dom).content

NoComments ==
    [section |-> FALSE, list |-> FALSE, items |-> <<>>, countTitle |-> -1,
     countMeta |-> -1, generic |-> <<>>]

\* the soup after the body loop has visited the blocks in removed: what
\* stood inside a script/style/nav/aside of a visited block is gone
AfterBody(dom, removed) ==
    [dom EXCEPT
       !.author = IF dom.inAside.author \in removed THEN None ELSE @,
       !.date = IF dom.inAside.date \in removed THEN None ELSE @,
       !.comments = IF dom.inAside.comments \in removed
                    THEN NoComments ELSE @,
       !.blocks = [i \in DOMAIN dom.blocks |->
                      IF i \in removed
                      THEN [dom.blocks[i] EXCEPT !.asideImgs = <<>>]
                      ELSE dom.blocks[i]]]

\* line 254: the block is one of '.pf-content, .td-post-content,
\* .entry-content, article'
IsArea(b) == b.sel \in {1, 2, 3, 7}

\* the img tags of the blocks from block i on, in document order: of every
\* block when all is set, of the content areas otherwise
RECURSIVE BlockImgs(_, _, _)
BlockImgs(blocks, i, all) ==
    IF i > Len(blocks) THEN <<>>
    ELSE (IF all \/ IsArea(blocks[i])
          THEN blocks[i].imgs \o blocks[i].asideImgs ELSE <<>>)
             \o BlockImgs(blocks, i + 1, all)

\* what _extract_images reads of the page (lines 254-261): the <article>
\* of a comment item is a content area too
ImagesOf(dom) ==
    LET hasArea == \/ \E i \in DOMAIN dom.blocks : IsArea(dom.blocks[i])
                   \/ \E i \in DOMAIN dom.comments.items :
                          dom.comments.items[i].article
    IN  [meta |-> dom.meta, areas |-> IF hasArea THEN 1 ELSE 0,
         outsideImgs |-> dom.outsideImgs,
         imgs |-> BlockImgs(dom.blocks, 1, ~hasArea)]

\* lines 578-636
SuccessRecord(url, dom) ==
    LET loop == BodyLoop(dom)
        content == loop.content
        soup == AfterBody(dom, loop.removed)
        images == ExtractImages(ImagesOf(soup), SiteHost)
        comments == ExtractComments(soup.comments)
    IN  [url |-> url, success |-> TRUE, title |-> ExtractTitle(dom),
         content |-> content, author |-> ExtractAuthor(soup),
         publish_date |-> ExtractDate(soup), content_length |-> content.len,
         images |-> images, comments |-> comments,
         image_count |-> Len(images), comment_count |-> Len(comments)]

\* lines 573 and 643
FailureRecordWithContent(url, error) ==
    [url |-> url, success |-> FALSE, error |-> error, content |-> Text(1, 1),
     images |-> <<>>, comments |-> <<>>]

FailureRecord(url, error) == [url |-> url, success |-> FALSE, error |-> error]

LoadFailed == "Failed to load page"

\* str(e) of an exception raised inside the try block
ExcMsgs == {"list index out of range"}

\* lines 641-643: the except clause of extract_article
CaughtRecordGeneric(url, e) == FailureRecord(url, "Content extraction error")

CaughtRecord(url, e) == FailureRecord(url, e)

(***************************************************************************)
(* Search result pages.  A page is given by its structure: wrap (it has a  *)
(* div.td-main-content-wrap), outer (hrefs of the anchors outside the      *)
(* wrap, which come first), titled (href of the first anchor of each       *)
(* h3.entry-title), plain (the other anchors of the main content), nav     *)
(* (the div.page-nav: present, label, links).                              *)
(***************************************************************************)
NoLabel == [kind |-> "none", cur |-> 0, total |-> 0]

BadLabel == [kind |-> "bad", cur |-> 0, total |-> 0]

PageOf(x, y) == [kind |-> "ok", cur |-> x, total |-> y]

NoNav == [present |-> FALSE, label |-> NoLabel, links |-> <<>>]

Nav(label, links) == [present |-> TRUE, label |-> label, links |-> links]

\* main_content.find_all('h3', class_='entry-title'), first anchor of each
TitleLinks(page) == page.titled

\* main_content.find_all('a', href=True); main_content is the whole page
\* when there is no wrap (lines 697-702)
MainAnchors(page) ==
    (IF page.wrap THEN <<>> ELSE page.outer) \o page.titled \o page.plain
        \o page.nav.links

\* soup.find_all('a', href=True)
SoupAnchors(page) == page.outer \o page.titled \o page.plain \o page.nav.links

\* lines 711-717 and 727-733
AcceptLinkNoGlobalCheck(href, page_article_urls, urls) ==
    /\ href.site
    /\ Has202(href)
    /\ ~HasPage(href)
    /\ href \notin Range(page_article_urls)
    /\ href.frag \notin {"#comments", "#respond"}

AcceptLink(href, page_article_urls, urls) ==
    /\ href.site
    /\ Has202(href)
    /\ ~HasPage(href)
    /\ href \notin Range(page_article_urls)
    /\ href \notin Range(urls)
    /\ href.frag \notin {"#comments", "#respond"}

RECURSIVE CollectLinks(_, _, _, _)
CollectLinks(hrefs, k, page_article_urls, urls) ==
    IF k > Len(hrefs) THEN page_article_urls
    ELSE CollectLinks(hrefs, k + 1,
             IF AcceptLink(hrefs[k], page_article_urls, urls)
             THEN Append(page_article_urls, hrefs[k])
             ELSE page_article_urls,
             urls)

\* lines 704-735: title links first, all anchors when they gave nothing
PageArticleUrlsMixed(page, urls) ==
    CollectLinks(MainAnchors(page), 1,
                 CollectLinks(TitleLinks(page), 1, <<>>, urls), urls)

PageArticleUrls(page, urls) ==
    LET by_title == CollectLinks(TitleLinks(page), 1, <<>>, urls)
    IN  IF by_title # <<>> THEN by_title
        ELSE CollectLinks(MainAnchors(page), 1, <<>>, urls)

\* lines 750-768: 'Page X of Y' with X < Y
LabelSignal(page) ==
    /\ page.nav.present
    /\ page.nav.label.kind = "ok"
    /\ page.nav.label.cur < page.nav.label.total

\* lines 771-774: the first anchor of the pagination block is /page/N+1/
NavLinkSignal(page, n) ==
    /\ page.nav.present
    /\ page.nav.links # <<>>
    /\ HasPageN(page.nav.links[1], n + 1)

\* lines 777-784: some anchor of the page is /page/N+1/ with '?s='
AnyLinkSignal(page, n) ==
    \E i \in DOMAIN SoupAnchors(page) :
        HasPageN(SoupAnchors(page)[i], n + 1) /\ SoupAnchors(page)[i].q

\* lines 792-796
FullPageSignal(found, n, maxp) == found >= PerPage /\ n < maxp

HasNextPage(page, n, found, maxp) ==
    \/ LabelSignal(page)
    \/ NavLinkSignal(page, n)
    \/ AnyLinkSignal(page, n)
    \/ FullPageSignal(found, n, maxp)

\* lines 737-740 and 798-800: the two breaks after a page was read
BreakOnlyWithoutEvidence(page_article_urls, has_next_page) ==
    page_article_urls = <<>> /\ ~has_next_page

BreakAfterPage(page_article_urls, has_next_page) ==
    page_article_urls = <<>> \/ ~has_next_page

\* The largest max_pages of the model: no call fetches more pages.
FetchCap ==
    IF MaxPagesBound > ScenarioPages THEN MaxPagesBound ELSE ScenarioPages

\* line 677: the while condition
LoopCondNoArticleLimit(urls, maxa, n, maxp) == n <= maxp

LoopCondNoPageLimit(urls, maxa, n, maxp) == Len(urls) < maxa

LoopCond(urls, maxa, n, maxp) == Len(urls) < maxa /\ n <= maxp

\* line 813
TruncateNot(urls, maxa) == urls

TruncateLast(urls, maxa) ==
    SubSeq(urls, Len(urls) - Min(maxa, Len(urls)) + 1, Len(urls))

Truncate(urls, maxa) == Prefix(urls, maxa)

\* line 690: where a failed page fetch leaves the loop
AfterPageFailureRetry == "page_loop"

AfterPageFailureAbort == "done"

AfterPageFailure == "after_loop"

(***************************************************************************)
(* find_articles (lines 223-242): the homepage's anchors, filtered.        *)
(***************************************************************************)
AcceptHome(href, article_urls) ==
    /\ href.site
    /\ Has2025(href)
    /\ href \notin Range(article_urls)
    /\ href.frag # "#comments"

RECURSIVE CollectHome(_, _, _)
CollectHome(hrefs, k, article_urls) ==
    IF k > Len(hrefs) THEN article_urls
    ELSE CollectHome(hrefs, k + 1,
             IF AcceptHome(hrefs[k], article_urls)
             THEN Append(article_urls, hrefs[k])
             ELSE article_urls)

FindArticles(anchors) == Prefix(CollectHome(anchors, 1, <<>>), HomepageLimit)

(***************************************************************************)
(* The inputs the model draws from.                                        *)
(***************************************************************************)
\* n consecutive article URLs from URL start on, wrapping round
Run(start, n) == [i \in 1..n |-> Art(((start + i - 2) % NumUrls) + 1)]

RunStarts == {1, 3}

RunSizes == {0, 1, 2, PerPage}

TitledOptions ==
    {Run(s, n) : s \in RunStarts, n \in RunSizes}
        \cup {<<Art(s), Art(s + 1), Art(s)>> : s \in RunStarts}
        \cup {<<PageLink(2, TRUE), CommentsAnchor(s), Foreign(s), NoYear(s),
                RespondAnchor(s)>> : s \in RunStarts}

PlainOptions == {<<>>, <<CommentsAnchor(2), Art2024(2), Art(2), Art2024(2)>>}

OuterOptions == {<<Art(NumUrls)>>}

NavOptions ==
    {NoNav,
     Nav(PageOf(1, 2), <<>>),
     Nav(PageOf(2, 2), <<>>),
     Nav(BadLabel, <<PageLink(1, TRUE)>>),
     Nav(NoLabel, <<PageLink(2, FALSE)>>),
     Nav(NoLabel, <<PageLink(3, TRUE)>>),
     Nav(NoLabel, <<PageLink(1, TRUE), PageLink(2, FALSE)>>),
     Nav(NoLabel, <<PageLink(1, TRUE), PageLink(2, TRUE)>>)}

ResultPages ==
    [wrap : BOOLEAN, outer : OuterOptions, titled : TitledOptions,
     plain : PlainOptions, nav : NavOptions]

Homepages ==
    {Run(s, n) : s \in RunStarts, n \in RunSizes}
        \cup {<<Art(1), CommentsAnchor(1), Art2024(2), Art(2), Art(1), Foreign(3),
                RespondAnchor(3)>>}

PlainImg(src) ==
    [src |-> src, dsrc |-> NoUrl, width |-> NoDim, height |-> NoDim, alt |-> "",
     title |-> "", class |-> "", figcaption |-> None, sibcaption |-> None]

Item(id, content, nested) ==
    [id |-> id, article |-> TRUE, cite |-> "reader", time |-> "May 1, 2025",
     content |-> content, nested |-> nested]

\* a full article: title, a body above the threshold, a featured image that
\* is also in the body, a second body image, a comment with a reply
FullArticle ==
    [title |-> "Town council votes", author |-> "Staff", date |-> "May 1, 2025",
     blocks |-> << Block(1, Text(1, MinContent + 1),
                         <<PlainImg(ImgUrl("https", SiteHost, 1, FALSE)),
                           PlainImg(ImgUrl("root", "", 2, FALSE))>>, <<>>) >>,
     meta |-> [og |-> ImgUrl("https", SiteHost, 1, FALSE), tw |-> NoUrl],
     outsideImgs |-> <<>>, inAside |-> Nowhere,
     comments |-> [section |-> TRUE, list |-> TRUE,
                   items |-> <<Item("1", CText(1, 20, FALSE), FALSE),
                               Item("2", CText(2, 12, FALSE), TRUE)>>,
                   countTitle |-> 2, countMeta |-> -1, generic |-> <<>>]]

\* a page of another template: nothing the selectors know
BarePage ==
    [title |-> None, author |-> None, date |-> None,
     blocks |-> <<>>, meta |-> [og |-> NoUrl, tw |-> NoUrl],
     outsideImgs |-> <<>>, inAside |-> Nowhere, comments |-> NoComments]

\* the article pages the crawl session is served
ArticlePages == {FullArticle}

Keyword == "fire"

(***************************************************************************)
(* The crawl session.                                                      *)
(***************************************************************************)
NoInput == [fn |-> "none"]

\* max_posts = None: no limit was given
NoLimit == [given |-> FALSE, val |-> 0]

\* lastPass before any page was read
NoPass == [n |-> 0, found |-> 0, nav |-> NoNav, paged |-> <<>>]

Init ==
    /\ pc = "idle"
    /\ op = "none"
    /\ max_articles = 0
    /\ max_pages = 0
    /\ all_article_urls = <<>>
    /\ page_num = 1
    /\ article_urls_to_scrape = <<>>
    /\ results = <<>>
    /\ returned = <<>>
    /\ pagesFetched = 0
    /\ fetchLog = <<>>
    /\ lastEvt = "none"
    /\ undelayed = FALSE
    /\ seenAgain = FALSE
    /\ pageFailed = FALSE
    /\ lastPass = NoPass
    /\ fin = NoInput
    /\ fout = <<>>
    /\ max_posts = NoLimit
    /\ all_posts = <<>>
    /\ api_page = 1
    /\ apiLog = <<>>

\* search_articles(keyword, max_articles, max_pages): lines 673-674
SearchStart(maxa, maxp) ==
    /\ pc = "idle"
    /\ op' = "search"
    /\ max_articles' = maxa
    /\ max_pages' = maxp
    /\ all_article_urls' = <<>>
    /\ page_num' = 1
    /\ pc' = "page_loop"
    /\ UNCHANGED <<article_urls_to_scrape, results, returned, pagesFetched,
                   fetchLog, lastEvt, undelayed, seenAgain, pageFailed,
                   lastPass, fin, fout, postsVars>>

\* line 677: the while condition is false
LoopExit ==
    /\ pc = "page_loop"
    /\ ~LoopCond(all_article_urls, max_articles, page_num, max_pages)
    /\ pc' = "after_loop"
    /\ UNCHANGED <<op, max_articles, max_pages, all_article_urls, page_num,
                   article_urls_to_scrape, results, returned, pagesFetched,
                   fetchLog, lastEvt, undelayed, seenAgain, pageFailed,
                   lastPass, fin, fout, postsVars>>

\* lines 687-690: get_page_stealthily returns None
PageFetchFail ==
    /\ pc = "page_loop"
    /\ LoopCond(all_article_urls, max_articles, page_num, max_pages)
    /\ pagesFetched <= FetchCap
    /\ pagesFetched' = pagesFetched + 1
    /\ undelayed' = (undelayed \/ lastEvt = "fetch")
    /\ lastEvt' = "fetch"
    /\ pageFailed' = TRUE
    /\ pc' = AfterPageFailure
    /\ UNCHANGED <<op, max_articles, max_pages, all_article_urls, page_num,
                   article_urls_to_scrape, results, returned, fetchLog,
                   seenAgain, lastPass, fin, fout, postsVars>>

\* lines 687-806: one pass of the loop body on a page that loaded
PageFetchOk(page) ==
    /\ pc = "page_loop"
    /\ LoopCond(all_article_urls, max_articles, page_num, max_pages)
    /\ pagesFetched <= FetchCap
    /\ pagesFetched' = pagesFetched + 1
    /\ undelayed' = (undelayed \/ lastEvt = "fetch")
    /\ seenAgain' = (seenAgain \/ \E href \in Range(MainAnchors(page)) :
                                      href \in Range(all_article_urls))
    /\ LET page_article_urls == PageArticleUrls(page, all_article_urls)
           has_next_page == HasNextPage(page, page_num, Len(page_article_urls),
                                        max_pages)
       IN  /\ all_article_urls' = all_article_urls \o page_article_urls
           /\ lastPass' = [n |-> page_num, found |-> Len(page_article_urls),
                           nav |-> page.nav,
                           paged |-> SelectSeq(SoupAnchors(page), HasPage)]
           /\ IF BreakAfterPage(page_article_urls, has_next_page)
              THEN /\ pc' = "after_loop"
                   /\ lastEvt' = "fetch"
                   /\ UNCHANGED page_num
              ELSE /\ page_num' = page_num + 1
                   /\ lastEvt' = IF page_num + 1 <= max_pages
                                 THEN "delay" ELSE "fetch"
                   /\ pc' = "page_loop"
    /\ UNCHANGED <<op, max_articles, max_pages, article_urls_to_scrape,
                   results, returned, fetchLog, pageFailed, fin, fout,
                   postsVars>>

\* lines 808-818
SearchSchedule ==
    /\ pc = "after_loop"
    /\ IF all_article_urls = <<>>
       THEN /\ returned' = <<>>
            /\ pc' = "done"
            /\ UNCHANGED article_urls_to_scrape
       ELSE /\ article_urls_to_scrape' = Truncate(all_article_urls, max_articles)
            /\ pc' = "scrape"
            /\ UNCHANGED returned
    /\ results' = <<>>
    /\ lastPass' = NoPass
    /\ UNCHANGED <<op, max_articles, max_pages, all_article_urls, page_num,
                   pagesFetched, fetchLog, lastEvt, undelayed, seenAgain,
                   pageFailed, fin, fout, postsVars>>

\* scrape_articles(max_articles): line 839
ScrapeStart(maxa) ==
    /\ pc = "idle"
    /\ op' = "scrape"
    /\ max_articles' = maxa
    /\ results' = <<>>
    /\ pc' = "homepage"
    /\ UNCHANGED <<max_pages, all_article_urls, page_num,
                   article_urls_to_scrape, returned, pagesFetched, fetchLog,
                   lastEvt, undelayed, seenAgain, pageFailed, lastPass, fin,
                   fout, postsVars>>

\* lines 225-227, 844-846: the homepage does not load
HomepageFail ==
    /\ pc = "homepage"
    /\ returned' = results
    /\ lastEvt' = "fetch"
    /\ pc' = "done"
    /\ UNCHANGED <<op, max_articles, max_pages, all_article_urls, page_num,
                   article_urls_to_scrape, results, pagesFetched, fetchLog,
                   undelayed, seenAgain, pageFailed, lastPass, fin, fout,
                   postsVars>>

\* lines 229-242, 843-849
HomepageOk(anchors) ==
    /\ pc = "homepage"
    /\ lastEvt' = "fetch"
    /\ LET article_urls == FindArticles(anchors)
       IN  IF article_urls = <<>>
           THEN /\ returned' = results
                /\ pc' = "done"
                /\ UNCHANGED <<all_article_urls, article_urls_to_scrape>>
           ELSE /\ all_article_urls' = article_urls
                /\ article_urls_to_scrape' = Truncate(article_urls, max_articles)
                /\ pc' = "scrape"
                /\ UNCHANGED returned
    /\ UNCHANGED <<op, max_articles, max_pages, page_num, results,
                   pagesFetched, fetchLog, undelayed, seenAgain, pageFailed,
                   lastPass, fin, fout, postsVars>>

\* The position in the for loop over article_urls_to_scrape.
NextIndex == Len(fetchLog) + 1

\* lines 833 and 857: results.append(result)
AppendIfSuccess(rs, result) == IF result.success THEN Append(rs, result) ELSE rs

AppendResult(rs, result) == Append(rs, result)

\* lines 828-832: what search_articles adds to a successful record
Enrich(result, i) ==
    IF op = "search" /\ result.success
    THEN result @@ [search_keyword |-> Keyword, search_rank |-> i,
                    total_search_results |-> Len(all_article_urls),
                    pages_searched |-> page_num - 1]
    ELSE result

\* One pass of the for loop (lines 819-833, 849-857): the delay, then
\* extract_article and the append.  The log entry keeps what happened: html
\* (the page loaded), parsed (the extractors were run on it), raised (one
\* of them raised), exc (the message of what it raised) and the page that
\* was served.
ScrapeOne(result, html, raised, exc, dom) ==
    /\ pc = "scrape"
    /\ NextIndex <= Len(article_urls_to_scrape)
    /\ undelayed' = (undelayed \/ (NextIndex = 1 /\ lastEvt = "fetch"))
    /\ lastEvt' = "fetch"
    /\ fetchLog' = Append(fetchLog,
                       [url |-> article_urls_to_scrape[NextIndex], html |-> html,
                        parsed |-> html, raised |-> raised, exc |-> exc,
                        dom |-> dom])
    /\ results' = AppendResult(results, Enrich(result, NextIndex))
    /\ UNCHANGED <<pc, op, max_articles, max_pages, all_article_urls,
                   page_num, article_urls_to_scrape, returned, pagesFetched,
                   seenAgain, pageFailed, lastPass, fin, fout, postsVars>>

\* lines 571-573: the article page does not load
ArticleFetchFail ==
    /\ pc = "scrape"
    /\ NextIndex <= Len(article_urls_to_scrape)
    /\ ScrapeOne(FailureRecord(article_urls_to_scrape[NextIndex], LoadFailed),
                 FALSE, FALSE, None, BarePage)

\* lines 575-639: the page loads and extraction completes
ArticleExtracted(dom) ==
    /\ pc = "scrape"
    /\ NextIndex <= Len(article_urls_to_scrape)
    /\ ScrapeOne(SuccessRecord(article_urls_to_scrape[NextIndex], dom), TRUE,
                 FALSE, None, dom)

\* lines 641-643: the page loads and an extractor raises
ArticleExtractionRaises(msg, dom) ==
    /\ pc = "scrape"
    /\ NextIndex <= Len(article_urls_to_scrape)
    /\ ScrapeOne(CaughtRecord(article_urls_to_scrape[NextIndex], msg), TRUE,
                 TRUE, msg, dom)

\* lines 835 and 867: the for loop is over
Finish ==
    /\ pc = "scrape"
    /\ NextIndex > Len(article_urls_to_scrape)
    /\ returned' = results
    /\ pc' = "done"
    /\ UNCHANGED <<op, max_articles, max_pages, all_article_urls, page_num,
                   article_urls_to_scrape, results, pagesFetched, fetchLog,
                   lastEvt, undelayed, seenAgain, pageFailed, lastPass, fin,
                   fout, postsVars>>

Next ==
    \/ \E maxa \in 0..MaxArticlesBound, maxp \in 0..MaxPagesBound :
           SearchStart(maxa, maxp)
    \/ LoopExit
    \/ PageFetchFail
    \/ \E page \in ResultPages : PageFetchOk(page)
    \/ SearchSchedule
    \/ \E maxa \in 0..MaxArticlesBound : ScrapeStart(maxa)
    \/ HomepageFail
    \/ \E anchors \in Homepages : HomepageOk(anchors)
    \/ ArticleFetchFail
    \/ \E dom \in ArticlePages : ArticleExtracted(dom)
    \/ \E msg \in ExcMsgs : ArticleExtractionRaises(msg, FullArticle)
    \/ Finish

Spec == Init /\ [][Next]_vars

(***************************************************************************)
(* Long searches: search_articles with limits that let several full pages  *)
(* of results be read, on a site whose articles all load.                  *)
(***************************************************************************)
\* n consecutive article URLs from URL start on
Span(start, n) == [i \in 1..n |-> Art(start + i - 1)]

LongTitled ==
    {<<>>, Span(1, PerPage), Span(5, PerPage), Span(8, 2), Span(8, PerPage),
     Span(12, 2)}

LongNavs ==
    {NoNav,
     Nav(PageOf(1, 3), <<>>),
     Nav(PageOf(2, 3), <<>>),
     Nav(PageOf(2, 5), <<>>),
     Nav(PageOf(3, 3), <<>>),
     Nav(NoLabel, <<PageLink(2, FALSE)>>),
     Nav(NoLabel, <<PageLink(1, FALSE), PageLink(2, FALSE)>>),
     Nav(NoLabel, <<PageLink(1, TRUE), PageLink(2, TRUE), PageLink(3, TRUE)>>)}

LongResultPages ==
    [wrap : {TRUE}, outer : {<<>>}, titled : LongTitled, plain : {<<>>},
     nav : LongNavs]

LongArticles == {PerPage + 1, ScenarioArticles}

LongPages == {2, ScenarioPages}

NextLong ==
    \/ \E maxa \in LongArticles, maxp \in LongPages : SearchStart(maxa, maxp)
    \/ LoopExit
    \/ PageFetchFail
    \/ \E page \in LongResultPages : PageFetchOk(page)
    \/ SearchSchedule
    \/ ArticleExtracted(FullArticle)
    \/ Finish

SpecLong == Init /\ [][NextLong]_vars

(***************************************************************************)
(* The extractors on their own: an input is drawn, the extractor is        *)
(* applied to it.                                                          *)
(***************************************************************************)
\* lengths round the threshold of the body chain
BodyLens == {0, MinContent - 1, MinContent, MinContent + 1}

\* a page that holds content elements and nothing else: block i is of
\* selector sel[i] and has text i, of len[i] characters
BodyPage(sel, len) ==
    [BarePage EXCEPT
       !.blocks = [i \in DOMAIN sel |->
                      Block(sel[i], Text(i, len[i]), <<>>, <<>>)]]

ImgPaths == 1..NumImgPaths

\* path 1 in every form, the other paths as absolute URLs, and a UI asset
ImgSrcs ==
    {ImgUrl("https", SiteHost, p, FALSE) : p \in ImgPaths}
        \cup {ImgUrl("proto", SiteHost, 1, FALSE), ImgUrl("root", "", 1, FALSE),
              ImgUrl("rel", "", 1, FALSE), ImgUrl("https", CdnHost, 1, TRUE)}

SizedImg(src, w, h) == [PlainImg(src) EXCEPT !.width = w, !.height = h]

ImgTagPool ==
    {PlainImg(u) : u \in ImgSrcs}
        \cup {PlainImg(NoUrl),
              [PlainImg(EmptyUrl) EXCEPT !.dsrc = ImgUrl("root", "", 1, FALSE)],
              SizedImg(ImgUrl("https", SiteHost, 2, FALSE), Px(MinImgDim - 1),
                       Px(MinImgDim)),
              SizedImg(ImgUrl("https", SiteHost, 2, FALSE), Px(MinImgDim),
                       Px(MinImgDim)),
              SizedImg(ImgUrl("https", SiteHost, 2, FALSE), Dim("bad", 0), Px(1)),
              SizedImg(ImgUrl("https", SiteHost, 2, FALSE), Px(1), NoDim)}

SeqsUpTo(S, n) == UNION {[1..m -> S] : m \in 0..n}

MetaOptions ==
    {[og |-> NoUrl, tw |-> NoUrl],
     [og |-> EmptyUrl, tw |-> ImgUrl("https", SiteHost, 2, FALSE)],
     [og |-> NoUrl, tw |-> ImgUrl("https", SiteHost, 2, FALSE)],
     [og |-> ImgUrl("https", SiteHost, 1, FALSE), tw |-> NoUrl],
     [og |-> ImgUrl("proto", SiteHost, 1, FALSE),
      tw |-> ImgUrl("https", SiteHost, 2, FALSE)],
     [og |-> ImgUrl("root", "", 1, FALSE), tw |-> NoUrl]}

AreaOptions ==
    {[areas |-> 0, outsideImgs |-> <<>>],
     [areas |-> 0, outsideImgs |-> <<PlainImg(ImgUrl("https", SiteHost, 2, FALSE))>>],
     [areas |-> 1, outsideImgs |-> <<PlainImg(ImgUrl("https", SiteHost, 2, FALSE))>>],
     [areas |-> 2, outsideImgs |-> <<>>]}

\* the part of an article page _extract_images reads
ImageDom(m, a, t) ==
    [meta |-> m, areas |-> a.areas, outsideImgs |-> a.outsideImgs, imgs |-> t]

CTexts ==
    {CText(1, MinCommentLen - 1, FALSE), CText(2, MinCommentLen, FALSE),
     CText(3, 9, FALSE), CText(5, 30, TRUE), CText(0, 0, FALSE)}

ItemPool ==
    {Item(id, t, FALSE) : id \in {"", "1"}, t \in CTexts}
        \cup {Item("2", CText(2, MinCommentLen, FALSE), TRUE),
              Item("2", CText(3, 9, FALSE), TRUE)}
        \cup {[Item("1", CText(3, 9, FALSE), FALSE) EXCEPT !.article = FALSE],
              Item("1", NoContent, FALSE),
              [Item("2", CText(4, 10, FALSE), TRUE) EXCEPT !.cite = None,
                                                           !.time = None]}

\* <<countTitle, countMeta>>
CountOptions == {<<-1, -1>>, <<5, -1>>, <<-1, 3>>}

CommentsDom(section, list, items, counts) ==
    [section |-> section, list |-> list, items |-> items,
     countTitle |-> counts[1], countMeta |-> counts[2], generic |-> <<>>]

\* the same page with elements elsewhere that generic comment selectors match
GenericMatches == <<CText(8, 20, FALSE), CText(9, 12, FALSE)>>

WithGeneric(c) == [c EXCEPT !.generic = GenericMatches]

CommentInputs ==
    {CommentsDom(section, FALSE, <<>>, n) : section \in BOOLEAN, n \in CountOptions}
        \cup {CommentsDom(TRUE, TRUE, it, n) :
                  it \in SeqsUpTo(ItemPool, MaxItems), n \in CountOptions}
        \cup {WithGeneric(CommentsDom(section, FALSE, <<>>, <<-1, -1>>)) :
                  section \in BOOLEAN}
        \cup {WithGeneric(CommentsDom(TRUE, TRUE, it, <<-1, -1>>)) :
                  it \in SeqsUpTo(ItemPool, MaxItems)}

\* result pages given to the link strategies on their own: the pages of
\* the crawl, and pages with links of other years and with slugs
LinkPages ==
    ResultPages
        \cup [wrap : BOOLEAN, outer : {<<Art(NumUrls), Art2019(2)>>},
              titled : {<<>>, <<Art2019(1)>>,
                        <<Art2019(1), BudgetPage(2), Art(3), PagedArt(4)>>},
              plain : {<<>>, <<BudgetPage(2), Art2019(4), Art(5), PagedArt(5),
                                RespondAnchor(5)>>},
              nav : {NoNav}]

\* all_article_urls when the page is read
LinkFrontiers == {<<>>, Run(1, 2), <<Art(3), Art2024(2), BudgetPage(2)>>}

\* a li.comment that holds its div.comment-content, of len characters,
\* directly and not in an <article>
BareItem(len) ==
    [Item("1", CText(1, len, FALSE), FALSE) EXCEPT !.article = FALSE]

\* a page with a block of selector 1 and an <article> block, each with an
\* img in an aside of its own, and with the author element, the date
\* element and the comment markup inside the aside of block a, d, c
AsidePage(len, a, d, c) ==
    [FullArticle EXCEPT
       !.blocks = << Block(1, Text(1, len), <<>>,
                           <<PlainImg(ImgUrl("https", SiteHost, 1, FALSE))>>),
                     Block(7, Text(2, MinContent + 1), <<>>,
                           <<PlainImg(ImgUrl("https", SiteHost, 2, FALSE))>>) >>,
       !.meta = [og |-> NoUrl, tw |-> NoUrl],
       !.inAside = [author |-> a, date |-> d, comments |-> c]]

\* article pages given to extract_article on their own
ArticleInputs ==
    {FullArticle, BarePage,
     [FullArticle EXCEPT !.title = None, !.comments = NoComments],
     [BarePage EXCEPT !.comments = FullArticle.comments],
     [BarePage EXCEPT !.outsideImgs = FullArticle.blocks[1].imgs],
     [BarePage EXCEPT !.outsideImgs = FullArticle.blocks[1].imgs,
                      !.comments = FullArticle.comments]}
        \cup {[p EXCEPT !.comments.items = <<BareItem(len)>>] :
                  p \in {[BarePage EXCEPT !.comments = FullArticle.comments],
                         AsidePage(MinContent - 1, 0, 0, 2)},
                  len \in {MinContent, MinContent + 1}}
        \cup {[FullArticle EXCEPT !.title = t, !.author = a, !.date = d] :
                  t \in {None, FullArticle.title},
                  a \in {None, FullArticle.author},
                  d \in {None, FullArticle.date}}
        \cup {[FullArticle EXCEPT
                  !.blocks = << Block(3, Text(1, len[1]), <<>>, <<>>),
                                Block(7, Text(2, len[2]), <<>>, <<>>) >>] :
                  len \in [1..2 -> {MinContent - 1, MinContent}]}
        \cup {AsidePage(len, a, d, c) :
                  len \in {MinContent - 1, MinContent + 1},
                  a \in 0..2, d \in {0, 2}, c \in 0..2}

InitExtract ==
    /\ pc = "fn_input"
    /\ op = "none"
    /\ max_articles = 0
    /\ max_pages = 0
    /\ all_article_urls = <<>>
    /\ page_num = 1
    /\ article_urls_to_scrape = <<>>
    /\ results = <<>>
    /\ returned = <<>>
    /\ pagesFetched = 0
    /\ fetchLog = <<>>
    /\ lastEvt = "none"
    /\ undelayed = FALSE
    /\ seenAgain = FALSE
    /\ pageFailed = FALSE
    /\ lastPass = NoPass
    /\ \/ \E m \in 0..MaxMatches :
             \E sel \in [1..m -> 1..NumSelectors], len \in [1..m -> BodyLens] :
                fin = [fn |-> "body", dom |-> BodyPage(sel, len)]
       \/ \E m \in MetaOptions, a \in AreaOptions, t \in SeqsUpTo(ImgTagPool, MaxImgs) :
              fin = [fn |-> "images", dom |-> ImageDom(m, a, t)]
       \/ \E c \in CommentInputs : fin = [fn |-> "comments", dom |-> c]
       \/ \E d \in ArticleInputs : fin = [fn |-> "article", dom |-> d]
       \/ \E page \in LinkPages, urls \in LinkFrontiers :
              fin = [fn |-> "links", page |-> page, urls |-> urls]
    /\ fout = <<>>
    /\ max_posts = NoLimit
    /\ all_posts = <<>>
    /\ api_page = 1
    /\ apiLog = <<>>

\* lines 596-606
ApplyBody ==
    /\ pc = "fn_input"
    /\ fin.fn = "body"
    /\ fout' = [content |-> ExtractContent(fin.dom),
                 tried |-> BodyLoop(fin.dom).tried]
    /\ pc' = "fn_output"
    /\ UNCHANGED <<op, max_articles, max_pages, all_article_urls, page_num,
                   article_urls_to_scrape, results, returned, pagesFetched,
                   fetchLog, lastEvt, undelayed, seenAgain, pageFailed,
                   lastPass, fin, postsVars>>

\* _extract_images(soup, base_url), base_url an article of the site
ApplyImages ==
    /\ pc = "fn_input"
    /\ fin.fn = "images"
    /\ fout' = ExtractImages(fin.dom, SiteHost)
    /\ pc' = "fn_output"
    /\ UNCHANGED <<op, max_articles, max_pages, all_article_urls, page_num,
                   article_urls_to_scrape, results, returned, pagesFetched,
                   fetchLog, lastEvt, undelayed, seenAgain, pageFailed,
                   lastPass, fin, postsVars>>

\* _extract_comments(soup)
ApplyComments ==
    /\ pc = "fn_input"
    /\ fin.fn = "comments"
    /\ fout' = ExtractComments(fin.dom)
    /\ pc' = "fn_output"
    /\ UNCHANGED <<op, max_articles, max_pages, all_article_urls, page_num,
                   article_urls_to_scrape, results, returned, pagesFetched,
                   fetchLog, lastEvt, undelayed, seenAgain, pageFailed,
                   lastPass, fin, postsVars>>

\* extract_article(url) on a page that loads: lines 575-639
ApplyArticle ==
    /\ pc = "fn_input"
    /\ fin.fn = "article"
    /\ fout' = SuccessRecord(Art(1), fin.dom)
    /\ pc' = "fn_output"
    /\ UNCHANGED <<op, max_articles, max_pages, all_article_urls, page_num,
                   article_urls_to_scrape, results, returned, pagesFetched,
                   fetchLog, lastEvt, undelayed, seenAgain, pageFailed,
                   lastPass, fin, postsVars>>

\* lines 694-735: the links of one result page
ApplyLinks ==
    /\ pc = "fn_input"
    /\ fin.fn = "links"
    /\ fout' = PageArticleUrls(fin.page, fin.urls)
    /\ pc' = "fn_output"
    /\ UNCHANGED <<op, max_articles, max_pages, all_article_urls, page_num,
                   article_urls_to_scrape, results, returned, pagesFetched,
                   fetchLog, lastEvt, undelayed, seenAgain, pageFailed,
                   lastPass, fin, postsVars>>

NextExtract ==
    ApplyBody \/ ApplyImages \/ ApplyComments \/ ApplyArticle \/ ApplyLinks

SpecExtract == InitExtract /\ [][NextExtract]_vars

(***************************************************************************)
(* The WordPress REST client (src/nrinow/nrinow_scraper.py):               *)
(* NRINowScraper.get_all_posts asks get_posts for the API pages in turn.   *)
(* A post is <<p, i>>: the i-th post of API page p.  An entry of apiLog is *)
(* the page asked, what get_posts met: "ok" (a non-empty list), "empty"    *)
(* (the empty list), "error" (a RequestException, answered with []), and   *)
(* the number of posts the API sent.                                       *)
(***************************************************************************)
Limit(m) == [given |-> TRUE, val |-> m]

\* the posts of API page p when it holds n of them
PostsOf(p, n) == [i \in 1..n |-> <<p, i>>]

\* lines 149: max_posts and len(all_posts) >= max_posts
LimitReached(m, posts) == m.given /\ m.val # 0 /\ Len(posts) >= m.val

\* get_all_posts(max_posts = m): lines 133-134
GetAllPostsStart(m) ==
    /\ pc = "idle"
    /\ max_posts' = m
    /\ all_posts' = <<>>
    /\ api_page' = 1
    /\ pc' = "posts_loop"
    /\ UNCHANGED <<op, max_articles, max_pages, all_article_urls, page_num,
                   article_urls_to_scrape, results, returned, pagesFetched,
                   fetchLog, lastEvt, undelayed, seenAgain, pageFailed,
                   lastPass, fin, fout, apiLog>>

\* lines 136-155: get_posts returns n posts for the page asked
PostsPage(n) ==
    /\ pc = "posts_loop"
    /\ api_page <= ApiPages
    /\ apiLog' = Append(apiLog, [page |-> api_page, got |-> "ok", count |-> n])
    /\ LET posts == PostsOf(api_page, n)
           extended == all_posts \o posts
       IN  IF LimitReached(max_posts, extended)
           THEN /\ all_posts' = Prefix(extended, max_posts.val)
                /\ pc' = "posts_done"
                /\ UNCHANGED api_page
           ELSE /\ all_posts' = extended
                /\ api_page' = api_page + 1
                /\ pc' = "posts_loop"
    /\ UNCHANGED <<op, max_articles, max_pages, all_article_urls, page_num,
                   article_urls_to_scrape, results, returned, pagesFetched,
                   fetchLog, lastEvt, undelayed, seenAgain, pageFailed,
                   lastPass, fin, fout, max_posts>>

\* get_posts returned [] (lines 106-110 or 111-113): lines 144-145
PostsEnd(got) ==
    /\ pc = "posts_loop"
    /\ apiLog' = Append(apiLog, [page |-> api_page, got |-> got, count |-> 0])
    /\ pc' = "posts_done"
    /\ UNCHANGED <<op, max_articles, max_pages, all_article_urls, page_num,
                   article_urls_to_scrape, results, returned, pagesFetched,
                   fetchLog, lastEvt, undelayed, seenAgain, pageFailed,
                   lastPass, fin, fout, max_posts, all_posts, api_page>>

\* lines 106-110: the API answers with the empty list
PostsPageEmpty ==
    /\ pc = "posts_loop"
    /\ PostsEnd("empty")

\* lines 111-113: the request fails, get_posts returns []
PostsRequestFails ==
    /\ pc = "posts_loop"
    /\ PostsEnd("error")

MaxPostsInputs == {NoLimit} \cup {Limit(m) : m \in 0..MaxPostsBound}

NextPosts ==
    \/ \E m \in MaxPostsInputs : GetAllPostsStart(m)
    \/ \E n \in 1..PostsPerPage : PostsPage(n)
    \/ PostsPageEmpty
    \/ PostsRequestFails

SpecPosts == Init /\ [][NextPosts]_vars

(***************************************************************************)
(* Properties of the paginated search.                                     *)
(***************************************************************************)
Urls(records) == [i \in DOMAIN records |-> records[i].url]

\* C1: in search_articles the accumulated URL list, the scheduled list and
\* the list of URLs actually scraped never hold a URL twice.
C1_NoDuplicateUrls ==
    op = "search" =>
        /\ NoDup(all_article_urls)
        /\ NoDup(article_urls_to_scrape)
        /\ NoDup(Urls(fetchLog))

\* C1 witness: two pages were fetched, one of them offered a URL that was
\* already accumulated, and the session returned several records.
C1_Witness ==
    /\ op = "search" /\ pc = "done"
    /\ seenAgain
    /\ pagesFetched >= 2
    /\ Len(returned) >= 2

\* C2: search_articles never fetches more than max_pages result pages.
C2_PageLimit == op = "search" => pagesFetched <= max_pages

\* C2 witness: page max_pages was fetched and showed continuation evidence
\* (page_num was advanced past it) with fewer than max_articles URLs
\* accumulated, and the session ended without another page fetch.
C2_Witness ==
    /\ op = "search" /\ pc = "done"
    /\ max_pages >= 2
    /\ pagesFetched = max_pages
    /\ page_num = max_pages + 1
    /\ Len(all_article_urls) < max_articles

\* C3: search_articles schedules, scrapes and returns at most max_articles
\* articles: once the page loop is over the scheduled list is the first
\* max_articles entries of the accumulated list, and only scheduled URLs
\* are fetched.
C3_ArticleLimit ==
    op = "search" =>
        /\ Len(fetchLog) <= max_articles
        /\ Len(results) <= max_articles
        /\ Len(returned) <= max_articles
        /\ pc \in {"scrape", "done"} /\ all_article_urls # <<>> =>
               /\ Len(article_urls_to_scrape) = Min(max_articles, Len(all_article_urls))
               /\ \A i \in DOMAIN article_urls_to_scrape :
                      article_urls_to_scrape[i] = all_article_urls[i]
        /\ \A i \in DOMAIN fetchLog : fetchLog[i].url = article_urls_to_scrape[i]

\* C3 witness: the last page pushed the accumulated count above
\* max_articles and exactly max_articles records were returned.
C3_Witness ==
    /\ op = "search" /\ pc = "done"
    /\ max_articles >= 2
    /\ Len(all_article_urls) > max_articles
    /\ Len(returned) = max_articles

\* The steps a call has left at most: the scheduled articles still to
\* fetch, and before that the result pages the page limit still allows.
Remaining ==
    IF pc = "idle" THEN MaxArticlesBound + MaxPagesBound + 5
    ELSE IF pc = "page_loop" THEN max_articles + 3 + (max_pages + 1 - page_num)
    ELSE IF pc = "homepage" THEN max_articles + 3
    ELSE IF pc = "after_loop" THEN max_articles + 2
    ELSE IF pc = "scrape" THEN 1 + Len(article_urls_to_scrape) - Len(fetchLog)
    ELSE 0

\* C4: every call ends after finitely many fetches: each step of the code
\* (a page fetch with what follows it, an article fetch) lowers Remaining,
\* which is never negative; a call that has not returned can always take
\* its next step; and when search_articles returns, each scheduled article
\* has been fetched exactly once, in order.
C4_Terminates ==
    /\ [][Remaining' < Remaining]_vars
    /\ [](Remaining >= 0)
    /\ [](pc # "done" => ENABLED Next)
    /\ [](pc = "done" /\ op = "search" => Urls(fetchLog) = article_urls_to_scrape)

\* C4 witness: a finished search that fetched several pages, the last of
\* which failed to load, and then fetched each scheduled article.
C4_Witness ==
    /\ op = "search" /\ pc = "done"
    /\ pagesFetched >= 2
    /\ pageFailed
    /\ Len(fetchLog) >= 2
    /\ Urls(fetchLog) = article_urls_to_scrape

(***************************************************************************)
(* Properties of the scrape loop (search_articles and scrape_articles).    *)
(***************************************************************************)
BaseFields ==
    {"url", "success", "title", "content", "author", "publish_date",
     "content_length", "images", "comments", "image_count", "comment_count"}

Restrict(r, keys) == [f \in keys |-> r[f]]

\* C8: a failed article fetch does not stop the crawl: the returned list
\* has one record per scheduled URL, in position; the record of a URL whose
\* page did not load has success = false; the record of a URL whose page
\* loaded and parsed is the record extraction produces for that page.
C8_FetchFailureIsolated ==
    pc = "done" =>
        /\ Len(returned) = Len(article_urls_to_scrape)
        /\ Len(fetchLog) = Len(article_urls_to_scrape)
        /\ \A k \in DOMAIN returned :
               /\ returned[k].url = article_urls_to_scrape[k]
               /\ ~fetchLog[k].html => ~returned[k].success
               /\ fetchLog[k].html /\ ~fetchLog[k].raised =>
                      /\ returned[k].success
                      /\ Restrict(returned[k], BaseFields)
                             = SuccessRecord(article_urls_to_scrape[k], fetchLog[k].dom)

\* C8 witness: three articles were scheduled, the fetch of the second
\* failed, the first and the third were extracted.
C8_Witness ==
    /\ pc = "done"
    /\ Len(returned) = 3
    /\ ~fetchLog[2].html
    /\ returned[1].success /\ ~returned[2].success /\ returned[3].success

\* C9: a record with success = false has the keys url, success and error
\* only (no images, no comments, no body text); when the page did not load
\* the error is "Failed to load page" and no extractor was run on it.
C9_FailureRecordEmpty ==
    \A i \in DOMAIN results :
        ~results[i].success =>
            /\ DOMAIN results[i] = {"url", "success", "error"}
            /\ i \in DOMAIN fetchLog /\ ~fetchLog[i].html =>
                   /\ results[i].error = LoadFailed
                   /\ ~fetchLog[i].parsed

\* C9 witness: a finished session holding a record of a page that did not
\* load and a record of a page whose extraction raised.
C9_Witness ==
    /\ pc = "done"
    /\ \E i, j \in DOMAIN returned :
           /\ ~returned[i].success /\ returned[i].error = LoadFailed
           /\ ~returned[j].success /\ returned[j].error \in ExcMsgs

\* C10: the i-th record is for the i-th discovered URL: the scheduled list
\* is a prefix of the discovered list (all_article_urls holds the
\* accumulated search results, or the homepage URLs in scrape_articles) and
\* records are appended in that order.
C10_DiscoveryOrder ==
    /\ \A i \in DOMAIN results : results[i].url = all_article_urls[i]
    /\ \A i \in DOMAIN returned : returned[i].url = all_article_urls[i]
    /\ \A i \in DOMAIN fetchLog : fetchLog[i].url = all_article_urls[i]

\* C10 witness: a search over two pages or more discovered more URLs than
\* max_articles and returned three records, which came from both pages.
C10_Witness ==
    /\ op = "search" /\ pc = "done"
    /\ pagesFetched >= 2
    /\ Len(returned) = 3
    /\ Len(all_article_urls) > 3

(***************************************************************************)
(* Properties of the extractors.                                           *)
(***************************************************************************)
BodyDone == pc = "fn_output" /\ fin.fn = "body"

\* selector k was tried and selected an element
Matched(k) == k \in DOMAIN fout.tried /\ fout.tried[k] # NoElem

\* after selector k the loop went on to the next selector
WentOn(k) == k < NumSelectors => Len(fout.tried) > k

\* selector k ended the chain and gave the body
Ended(k) == Len(fout.tried) = k /\ fout.content = fout.tried[k]

\* C7 as stated: a candidate of 99 characters is rejected and the next
\* selector is tried; a candidate of 100 characters or more ends the chain
\* and is the body.
C7_AcceptsAtHundred ==
    BodyDone =>
        \A k \in 1..NumSelectors :
            /\ Matched(k) /\ fout.tried[k].len = MinContent - 1 => WentOn(k)
            /\ Matched(k) /\ fout.tried[k].len >= MinContent => Ended(k)

\* C7 amended: a candidate of 100 characters or fewer (99, and exactly
\* 100) is rejected and the next selector is tried; a candidate of more
\* than 100 characters (101 or more) ends the chain and is the body.
C7_AcceptsAboveHundred ==
    BodyDone =>
        \A k \in 1..NumSelectors :
            /\ Matched(k) /\ fout.tried[k].len <= MinContent => WentOn(k)
            /\ Matched(k) /\ fout.tried[k].len >= MinContent + 1 => Ended(k)

\* C7 witness: a candidate of exactly 100 characters was passed over and a
\* later candidate of 101 characters became the body.
C7_Witness ==
    /\ BodyDone
    /\ \E k, j \in 1..NumSelectors :
           /\ k < j
           /\ Matched(k) /\ fout.tried[k].len = MinContent
           /\ Matched(j) /\ fout.tried[j].len = MinContent + 1
           /\ fout.tried[j] # fout.tried[k]
           /\ Ended(j)

CommentsDone == pc = "fn_output" /\ fin.fn = "comments"

\* an item that passes the filters of the item loop
Survives(item) ==
    /\ item.article
    /\ item.content # NoContent
    /\ item.content.len >= MinCommentLen
    /\ ~item.content.phrase

HasRealComments(c) ==
    c.section /\ c.list /\ \E k \in DOMAIN c.items : Survives(c.items[k])

\* C5: _extract_comments never returns an empty list; without a comments
\* container, without a comment list or when no item passes the filters
\* the result is exactly one 'metadata' record; otherwise every record is
\* a 'comment' or a 'reply'.
C5_CommentsNeverEmpty ==
    CommentsDone =>
        /\ fout # <<>>
        /\ ~HasRealComments(fin.dom) =>
               Len(fout) = 1 /\ fout[1].type = "metadata"
        /\ HasRealComments(fin.dom) =>
               \A i \in DOMAIN fout : fout[i].type \in {"comment", "reply"}

\* C5 witness: a comment list with items none of which passes the filters
\* gave the single metadata record.
C5_Witness ==
    /\ CommentsDone
    /\ fin.dom.section /\ fin.dom.list
    /\ Len(fin.dom.items) >= 2
    /\ ~HasRealComments(fin.dom)
    /\ Len(fout) = 1 /\ fout[1].type = "metadata"

ImagesDone == pc = "fn_output" /\ fin.fn = "images"

\* the two strings name the same address once resolved against the article
SameUrl(a, b) == MakeAbsolute(a, SiteHost) = MakeAbsolute(b, SiteHost)

\* an img the filters let through: it has a src, is not small, is no UI asset
OrdinaryImg(img) ==
    /\ ~Falsy(img.src)
    /\ ~TooSmall(img.width, img.height)
    /\ ~MakeAbsolute(img.src, SiteHost).ui

\* an Open Graph image and two body images, one of them with the URL of
\* the Open Graph image
FeaturedTwiceScenario(dom) ==
    /\ ~Falsy(dom.meta.og)
    /\ dom.areas = 1
    /\ Len(dom.imgs) = 2
    /\ OrdinaryImg(dom.imgs[1]) /\ OrdinaryImg(dom.imgs[2])
    /\ \E i, j \in 1..2 :
           /\ i # j
           /\ SameUrl(dom.imgs[i].src, dom.meta.og)
           /\ ~SameUrl(dom.imgs[j].src, dom.meta.og)

\* C6: no two entries of the image list have the same src, and with an
\* Open Graph image and two body images of which one has the URL of the
\* Open Graph image exactly 2 entries are returned.
C6_ImagesUnique ==
    ImagesDone =>
        /\ \A i, j \in DOMAIN fout : i # j => fout[i].src # fout[j].src
        /\ FeaturedTwiceScenario(fin.dom) => Len(fout) = 2

\* C13: every record of the image list has an absolute URL as src, whatever
\* the form of the src / data-src attribute or of the featured image's meta
\* content was.
C13_SrcAbsolute ==
    ImagesDone => \A i \in DOMAIN fout : IsAbsolute(fout[i].src)

\* the src or data-src value the loop reads from an img tag
RawSrc(img) == IF ~Falsy(img.src) THEN img.src ELSE img.dsrc

\* the meta content that makes the featured image: og:image when it has
\* content, else twitter:image when it has content
FeaturedContent(meta) ==
    IF ~Falsy(meta.og) THEN <<meta.og>>
    ELSE IF ~Falsy(meta.tw) THEN <<meta.tw>>
    ELSE <<>>

\* the resolved addresses of the page's img tags, in document order
TagSrcs(dom) ==
    [k \in DOMAIN ImgTags(dom) |->
        MakeAbsolute(RawSrc(ImgTags(dom)[k]), SiteHost)]

\* s from position i on can be read off t from position k on, in order
RECURSIVE Embeds(_, _, _, _)
Embeds(s, i, t, k) ==
    IF i > Len(s) THEN TRUE
    ELSE IF k > Len(t) THEN FALSE
    ELSE IF s[i] = t[k] THEN Embeds(s, i + 1, t, k + 1)
    ELSE Embeds(s, i, t, k + 1)

\* C15: the image list starts with the featured image when a meta tag has
\* content (og:image before twitter:image), the body images follow in
\* document order, and without meta content the list holds body images only.
C15_FeaturedFirst ==
    ImagesDone =>
        LET feat == FeaturedContent(fin.dom.meta)
            n == Len(feat)
        IN  /\ Len(fout) >= n
            /\ n = 1 => /\ fout[1].src = feat[1]
                        /\ fout[1].class = "featured-image"
            /\ \A i \in (n + 1)..Len(fout) :
                   fout[i].class # "featured-image"
            /\ Embeds([i \in 1..(Len(fout) - n) |-> fout[n + i].src], 1,
                      TagSrcs(fin.dom), 1)

\* C15 witness: og:image is empty, twitter:image has content and comes
\* first, two body images follow.
C15_Witness ==
    /\ ImagesDone
    /\ Falsy(fin.dom.meta.og) /\ ~Falsy(fin.dom.meta.tw)
    /\ Len(fout) = 3
    /\ fout[1].src = fin.dom.meta.tw
    /\ fout[2].class # "featured-image" /\ fout[3].class # "featured-image"

(***************************************************************************)
(* Properties of the comment extractor and of the article record.          *)
(***************************************************************************)
\* the records of type comment or reply of a comment list
RealComments(comments) ==
    {i \in DOMAIN comments : comments[i].type \in {"comment", "reply"}}

\* two structured items that pass the filters and differ in id and text
TwoStructured(c) ==
    /\ c.section /\ c.list
    /\ Len(c.items) = 2
    /\ Survives(c.items[1]) /\ Survives(c.items[2])
    /\ c.items[1].id # c.items[2].id
    /\ c.items[1].content # c.items[2].content

\* C12: on a page with the structured comment list and with elements that
\* generic comment selectors match elsewhere, every comment/reply record
\* comes from an item of the list, and two structured items give exactly
\* two records of type comment/reply.
C12_StructuredOnly ==
    CommentsDone /\ fin.dom.section /\ fin.dom.list /\ fin.dom.generic # <<>> =>
        /\ \A i \in RealComments(fout) :
               \E k \in DOMAIN fin.dom.items :
                   /\ fout[i].text = fin.dom.items[k].content
                   /\ fout[i].comment_id = fin.dom.items[k].id
        /\ \A i \in DOMAIN fout :
               \A g \in DOMAIN fin.dom.generic : fout[i].text # fin.dom.generic[g]
        /\ TwoStructured(fin.dom) => Len(fout) = 2 /\ RealComments(fout) = {1, 2}

\* C12 witness: two structured items, generic matches elsewhere, two records.
C12_Witness ==
    /\ CommentsDone
    /\ fin.dom.generic # <<>>
    /\ TwoStructured(fin.dom)
    /\ Len(fout) = 2 /\ RealComments(fout) = {1, 2}

ArticleDone == pc = "fn_output" /\ fin.fn = "article"

\* C14: comment_count of the article record counts the records of type
\* comment or reply only; it is 0 when the comment list is the metadata
\* sentinel alone.
C14_SentinelNotCounted ==
    ArticleDone =>
        fout.comment_count = Cardinality(RealComments(fout.comments))

(***************************************************************************)
(* Properties of the link strategies of a result page.                     *)
(***************************************************************************)
LinksDone == pc = "fn_output" /\ fin.fn = "links"

\* the href carries a year segment /20xx/
HasYearSegment(h) == h.yr \in {"2025", "2024", "2019"}

\* the acceptance conditions the code applies to one href
MeetsTests(h, urls) ==
    /\ h.site
    /\ h.yr \in {"2025", "2024", "2025-budget"}
    /\ h.pg = 0
    /\ h \notin Range(urls)
    /\ h.frag # "#comments" /\ h.frag # "#respond"

\* the acceptance conditions with a year segment /20xx/ in place of '/202'
MeetsYearTests(h, urls) ==
    /\ h.site
    /\ HasYearSegment(h)
    /\ h.pg = 0
    /\ h \notin Range(urls)
    /\ h.frag # "#comments" /\ h.frag # "#respond"

\* what the title-link strategy accepts
TitleAccepted(page, urls) == {h \in Range(page.titled) : MeetsTests(h, urls)}

\* the anchors of the main content (of the whole page when it has no wrap)
FallbackAnchors(page) ==
    Range(page.titled) \cup Range(page.plain) \cup Range(page.nav.links)
        \cup (IF page.wrap THEN {} ELSE Range(page.outer))

\* s lists its elements in the order of their first occurrence in t
InOrderOf(s, t) ==
    \A i, j \in DOMAIN s :
        i < j => \E a, b \in DOMAIN t :
                     /\ a < b /\ t[a] = s[i] /\ t[b] = s[j]
                     /\ \A e \in 1..(b - 1) : t[e] # s[j]

\* C16: when the title-link strategy accepts a URL the page's list is
\* exactly what it accepted, in title order, and holds nothing the fallback
\* alone would find; the fallback's URLs appear only when the title-link
\* strategy accepted none.
C16_StrategiesExclusive ==
    LinksDone =>
        IF TitleAccepted(fin.page, fin.urls) # {}
        THEN /\ Range(fout) = TitleAccepted(fin.page, fin.urls)
             /\ NoDup(fout)
             /\ InOrderOf(fout, fin.page.titled)
        ELSE \A i \in DOMAIN fout :
                 /\ fout[i] \in FallbackAnchors(fin.page)
                 /\ fout[i] \notin Range(fin.page.titled)

\* C16 witness: the title strategy accepted URLs while the other anchors
\* hold an acceptable URL that is not in the list.
C16_Witness ==
    /\ LinksDone
    /\ Len(fout) >= 2
    /\ Range(fout) \subseteq Range(fin.page.titled)
    /\ \E h \in FallbackAnchors(fin.page) \ Range(fin.page.titled) :
           MeetsTests(h, fin.urls) /\ h \notin Range(fout)

\* the anchors the strategy that produced the list went through
Scanned(page, urls) ==
    IF TitleAccepted(page, urls) # {} THEN Range(page.titled)
    ELSE FallbackAnchors(page)

\* C17: a link is accepted only if it starts with the origin,
\* has a year segment /20xx/, has no '/page/', is not in the frontier and
\* does not end in '#comments' or '#respond', and every such link the
\* running strategy meets is accepted.
C17_AcceptsYearSegment ==
    LinksDone =>
        /\ \A i \in DOMAIN fout : MeetsYearTests(fout[i], fin.urls)
        /\ \A h \in Scanned(fin.page, fin.urls) :
               MeetsYearTests(h, fin.urls) => h \in Range(fout)

(***************************************************************************)
(* Properties of the page loop.                                            *)
(***************************************************************************)
\* C20: a result page that fails to load ends the page loop at once (the
\* failed page is the last one fetched, each page was fetched once), and
\* the call returns one record for every URL accumulated before it, up to
\* max_articles; the result is empty only when nothing was accumulated.
C20_PageFailureKeepsWork ==
    op = "search" /\ pageFailed =>
        /\ pc # "page_loop"
        /\ pagesFetched = page_num
        /\ pc = "done" =>
               /\ Urls(returned) = Prefix(all_article_urls, max_articles)
               /\ returned = <<>> <=> all_article_urls = <<>>

\* C20 witness: the second page failed to load and the URLs of the first
\* page were scraped and returned.
C20_Witness ==
    /\ op = "search" /\ pc = "done"
    /\ pageFailed
    /\ pagesFetched = 2
    /\ Len(returned) = 2
    /\ Urls(returned) = all_article_urls

\* a pass of the page loop was just made on a loaded page: no fetch since
JustRead ==
    /\ op = "search"
    /\ pc \in {"page_loop", "after_loop"}
    /\ lastPass.n >= 1
    /\ pagesFetched = lastPass.n

\* after that pass the loop goes on to fetch the next page
NextPageDue ==
    /\ pc = "page_loop"
    /\ page_num = lastPass.n + 1
    /\ Len(all_article_urls) < max_articles
    /\ page_num <= max_pages

\* the pagination block shows a 'Page X of Y' label with X < Y
LabelAhead(nav) ==
    /\ nav.present
    /\ nav.label.kind = "ok"
    /\ nav.label.cur < nav.label.total

\* C11: once max_articles URLs are accumulated no further results page is
\* fetched, whatever the last page shows; before that, a first page with a
\* full page of URLs and a 'Page X of Y' label (X < Y) is followed by the
\* fetch of page 2 when the limits allow, and a loop that goes on does
\* fetch the next page.
C11_StopsAtArticleLimit ==
    /\ [][op = "search" /\ Len(all_article_urls) >= max_articles
             => pagesFetched' = pagesFetched]_vars
    /\ [](JustRead /\ lastPass.n = 1 /\ lastPass.found = PerPage
              /\ LabelAhead(lastPass.nav)
              /\ PerPage < max_articles /\ 1 < max_pages
           => NextPageDue)
    /\ [][NextPageDue => pagesFetched' = pagesFetched + 1]_vars

\* C11 witness: max_articles = 10, max_pages = 5, page 1 gave 7 URLs, page
\* 2 brought the total to 10 or more and shows 'Page 2 of 3'; the loop was
\* left with page 3 unfetched.
C11_Witness ==
    /\ op = "search" /\ pc = "after_loop"
    /\ max_articles = ScenarioArticles /\ max_pages = ScenarioPages
    /\ lastPass.n = 2 /\ pagesFetched = 2 /\ page_num = 3
    /\ Len(all_article_urls) - lastPass.found = PerPage
    /\ Len(all_article_urls) >= max_articles
    /\ LabelAhead(lastPass.nav)

\* the continuation signals as claimed: a label with X < Y, a link to page
\* N+1 in the pagination block, a link to page N+1 with the search query
\* anywhere, or a full page of new URLs
SignalsClaimed(pass) ==
    \/ LabelAhead(pass.nav)
    \/ \E h \in Range(pass.nav.links) : h.pg = pass.n + 1
    \/ \E h \in Range(pass.paged) : h.pg = pass.n + 1 /\ h.q
    \/ pass.found >= PerPage

\* C18: after a page N that gave a new URL, with fewer than max_articles
\* URLs accumulated and N < max_pages, page N+1 is fetched if and only if
\* one of the continuation signals holds.
C18_ContinuesIffSignal ==
    JustRead /\ lastPass.found >= 1
        /\ Len(all_article_urls) < max_articles /\ lastPass.n < max_pages
    => (NextPageDue <=> SignalsClaimed(lastPass))

\* the continuation signals the loop tests: of the pagination block only
\* the first link counts
SignalsTested(pass, maxp) ==
    \/ LabelAhead(pass.nav)
    \/ pass.nav.links # <<>> /\ pass.nav.links[1].pg = pass.n + 1
    \/ \E h \in Range(pass.paged) : h.pg = pass.n + 1 /\ h.q
    \/ pass.found >= PerPage /\ pass.n < maxp

\* the pass just made ended the loop with a break
Broke == pc = "after_loop" /\ page_num = lastPass.n

\* C19 as claimed: apart from the two counters the loop is left only after
\* a page with no new URL and no continuation evidence, and a page with no
\* new URL but with continuation evidence does not stop the crawl.
C19_StopsOnlyWithoutBoth ==
    /\ op = "search" /\ pc = "after_loop"
           /\ Len(all_article_urls) < max_articles /\ page_num <= max_pages
       => /\ Broke
          /\ lastPass.found = 0
          /\ ~SignalsClaimed(lastPass)
    /\ JustRead /\ lastPass.found = 0 /\ lastPass.n < max_pages
           /\ SignalsClaimed(lastPass)
       => NextPageDue

\* C19 amended: apart from the two counters the loop is left only after a
\* page that failed to load, a page with no new URL, or a page with none
\* of the signals the loop tests; a page with no new URL stops the crawl
\* whether or not it carries continuation evidence.
C19_StopsOnFailureEmptyOrNoSignal ==
    /\ op = "search" /\ pc = "after_loop"
           /\ Len(all_article_urls) < max_articles /\ page_num <= max_pages
       => \/ pageFailed
          \/ /\ Broke
             /\ \/ lastPass.found = 0
                \/ ~SignalsTested(lastPass, max_pages)
    /\ JustRead /\ lastPass.found = 0 => Broke

\* C19 witness: page 2 gave no new URL, shows 'Page 2 of 5', and ended
\* the loop with both counters short of their limits.
C19_Witness ==
    /\ JustRead /\ Broke
    /\ lastPass.n = 2 /\ lastPass.found = 0
    /\ lastPass.nav.label = PageOf(2, 5)
    /\ Len(all_article_urls) < max_articles /\ page_num < max_pages

(***************************************************************************)
(* Errors inside extract_article.                                          *)
(***************************************************************************)
\* C21: an exception raised by an extractor is caught inside
\* extract_article: the record appended for that URL is {url, success =
\* false, error = the exception's message}, and the loop over the scheduled
\* URLs goes on: a finished session has one record per scheduled URL.
C21_ExtractionErrorCaught ==
    \A k \in DOMAIN fetchLog :
        fetchLog[k].raised =>
            /\ k \in DOMAIN results
            /\ results[k] = [url |-> article_urls_to_scrape[k], success |-> FALSE,
                             error |-> fetchLog[k].exc]
            /\ pc \in {"scrape", "done"}
            /\ pc = "done" =>
                   /\ Len(fetchLog) = Len(article_urls_to_scrape)
                   /\ returned = results

\* C21 witness: the extraction of the first of three scheduled articles
\* raised, the next two were extracted, and all three records came back.
C21_Witness ==
    /\ pc = "done"
    /\ Len(returned) = 3
    /\ fetchLog[1].raised /\ fetchLog[1].exc \in ExcMsgs
    /\ ~returned[1].success
    /\ returned[2].success /\ returned[3].success

\* the record without the field f
Without(r, f) == Restrict(r, BaseFields \ {f})

\* C22: a missing title, author or date is not a failure: the record of a
\* page that loaded has success = true; a field whose element is missing
\* holds its sentinel ("No title found", "Unknown", "Unknown"); and the
\* rest of the record is what the same page with that element present
\* gives, so that the missing field costs no other field, image or
\* comment.
C22_MissingFieldsDegrade ==
    ArticleDone =>
        /\ fout.success
        /\ fin.dom.title # None => fout.title = fin.dom.title
        /\ fin.dom.author # None /\ fin.dom.inAside.author = 0 =>
               fout.author = fin.dom.author
        /\ fin.dom.date # None /\ fin.dom.inAside.date = 0 =>
               fout.publish_date = fin.dom.date
        /\ fin.dom.title = None =>
               /\ fout.title = "No title found"
               /\ Without(fout, "title")
                      = Without(SuccessRecord(fout.url,
                                    [fin.dom EXCEPT !.title = FullArticle.title]),
                                "title")
        /\ fin.dom.author = None =>
               /\ fout.author = "Unknown"
               /\ Without(fout, "author")
                      = Without(SuccessRecord(fout.url,
                                    [fin.dom EXCEPT !.author = FullArticle.author,
                                                    !.inAside.author = 0]),
                                "author")
        /\ fin.dom.date = None =>
               /\ fout.publish_date = "Unknown"
               /\ Without(fout, "publish_date")
                      = Without(SuccessRecord(fout.url,
                                    [fin.dom EXCEPT !.date = FullArticle.date,
                                                    !.inAside.date = 0]),
                                "publish_date")

\* C22 witness: a page without title element but with author, date, body,
\* images and comments gave a record with the title sentinel and all the
\* rest.
C22_Witness ==
    /\ ArticleDone
    /\ fin.dom.title = None /\ fin.dom.author # None /\ fin.dom.date # None
    /\ fout.success /\ fout.title = "No title found"
    /\ fout.author = fin.dom.author
    /\ fout.content.len > MinContent
    /\ Len(fout.images) = 2
    /\ Len(fout.comments) = 2 /\ fout.comments[1].type = "comment"

\* the last selector tried that selected an element
LastMatched(tried) ==
    CHOOSE k \in DOMAIN tried :
        tried[k] # NoElem /\ \A j \in DOMAIN tried : j > k => tried[j] = NoElem

\* the body that is left when no selector selects a text longer than the
\* threshold: the text of the last one that selected an element, else ""
ShortBody(tried) ==
    IF \E k \in DOMAIN tried : tried[k] # NoElem
    THEN tried[LastMatched(tried)] ELSE EmptyText

NoneLong(tried) ==
    \A k \in DOMAIN tried : tried[k] # NoElem => tried[k].len <= MinContent

\* C29: when no candidate of the chain is longer than the threshold the
\* body is the text of the last selector that matched, or the empty string
\* when none matched; the article record still has success = true, and its
\* content_length is the length of its body.
C29_ShortBodyKept ==
    /\ BodyDone /\ NoneLong(fout.tried) =>
           /\ Len(fout.tried) = NumSelectors
           /\ fout.content = ShortBody(fout.tried)
    /\ ArticleDone =>
           /\ fout.success
           /\ fout.content_length = fout.content.len
           /\ NoneLong(BodyLoop(fin.dom).tried) =>
                  fout.content = ShortBody(BodyLoop(fin.dom).tried)

\* C29 witness: an .entry-content block and an <article> block, both with
\* text of at most 100 characters; the record has success = true and the
\* text of the <article>, the last selector to match, as body.
C29_Witness ==
    /\ ArticleDone
    /\ Len(fin.dom.blocks) = 2
    /\ fin.dom.blocks[1].sel = 3 /\ fin.dom.blocks[1].text.len = MinContent
    /\ fin.dom.blocks[2].sel = 7 /\ fin.dom.blocks[2].text.len = MinContent - 1
    /\ fout.success
    /\ fout.content = fin.dom.blocks[2].text
    /\ fout.content_length = MinContent - 1

(***************************************************************************)
(* Properties of the comment filters.                                      *)
(***************************************************************************)
\* C23: no comment or reply record has a text shorter than 10 characters
\* and none has a text containing one of the form phrases; an item whose
\* text is shorter than 10 characters or contains such a phrase gives no
\* record.
C23_DiscardsUnderTen ==
    CommentsDone =>
        /\ \A i \in RealComments(fout) :
               fout[i].text.len >= 10 /\ ~fout[i].text.phrase
        /\ \A k \in DOMAIN fin.dom.items :
               LET t == fin.dom.items[k].content
               IN  t # NoContent /\ (t.len < 10 \/ t.phrase) =>
                       \A i \in RealComments(fout) : fout[i].text # t

\* the items of the list that pass the filters, by position
Kept(c) == {k \in DOMAIN c.items : Survives(c.items[k])}

\* item k of the list has a record of its own in the result
Recorded(c, k, comments) ==
    \E i \in RealComments(comments) :
        /\ comments[i].text = c.items[k].content
        /\ comments[i].comment_id = c.items[k].id

\* C24: comments are deduplicated by identifier when the item has one and
\* by text only when it has none: of two items that pass the filters, both
\* give a record when their identifiers differ, whatever their texts, and
\* both give a record when neither has an identifier and their texts
\* differ.
C24_DedupByIdElseText ==
    CommentsDone /\ fin.dom.section /\ fin.dom.list =>
        \A j, k \in Kept(fin.dom) :
            /\ j < k
            /\ \/ /\ fin.dom.items[j].id # "" /\ fin.dom.items[k].id # ""
                   /\ fin.dom.items[j].id # fin.dom.items[k].id
               \/ /\ fin.dom.items[j].id = "" /\ fin.dom.items[k].id = ""
                   /\ fin.dom.items[j].content # fin.dom.items[k].content
            => /\ Recorded(fin.dom, j, fout)
               /\ Recorded(fin.dom, k, fout)
               /\ Cardinality(RealComments(fout)) >= 2

\* C25: without the structured comments container the comments come from
\* the generic selector that matches: when it yields a genuine comment the
\* result is not the metadata sentinel and every record holds the text of
\* one of its matches.
C25_GenericFallback ==
    /\ CommentsDone /\ ~fin.dom.section
    /\ \E g \in DOMAIN fin.dom.generic :
           fin.dom.generic[g].len >= 10 /\ ~fin.dom.generic[g].phrase
    =>      /\ RealComments(fout) = DOMAIN fout
            /\ \A i \in DOMAIN fout :
                   \E g \in DOMAIN fin.dom.generic :
                       fout[i].text = fin.dom.generic[g]

(***************************************************************************)
(* Pacing of the search.                                                   *)
(***************************************************************************)
\* C26: in search_articles a delay precedes every fetch but the first: the
\* loop never makes a fetch (of a results page or of an article) right
\* after another fetch without calling human_delay in between.
C26_PacingUnconditional ==
    op = "search" => ~undelayed

\* C27: a link to page N+1 anywhere among the anchors of the pagination
\* block of page N, with or without the search query in its URL, makes the
\* loop go on to page N+1 when page N gave a new URL and both counters
\* allow another page.
C27_AnyNavLinkContinues ==
    /\ JustRead /\ lastPass.found >= 1
    /\ Len(all_article_urls) < max_articles /\ lastPass.n < max_pages
    /\ \E i \in DOMAIN lastPass.nav.links :
           lastPass.nav.links[i].pg = lastPass.n + 1
    => NextPageDue

\* the result pages of the session whose source was obtained
PagesRead == IF pageFailed THEN pagesFetched - 1 ELSE pagesFetched

\* C28: pages_searched of every successful record of a search is the
\* number of result pages fetched in the session, however the page loop
\* was left.
C28_PagesSearchedIsPagesFetched ==
    op = "search" =>
        \A i \in DOMAIN results :
            results[i].success => results[i].pages_searched = PagesRead

(***************************************************************************)
(* Properties of the REST client.                                          *)
(***************************************************************************)
\* the posts the API sent in answer to the first k calls, in page order
RECURSIVE Served(_)
Served(k) ==
    IF k = 0 THEN <<>>
    ELSE Served(k - 1) \o PostsOf(apiLog[k].page, apiLog[k].count)

\* C30: get_all_posts asks for the pages 1, 2, 3, ... in order and stops at
\* the first page that is empty or fails, keeping the posts it has; with
\* max_posts = M it returns at most M posts, the first M of the posts
\* served in page order, and without max_posts all of them.
C30_AtMostMaxPosts ==
    /\ \A k \in DOMAIN apiLog :
           /\ apiLog[k].page = k
           /\ k < Len(apiLog) => apiLog[k].got = "ok"
    /\ pc = "posts_done" =>
           IF max_posts.given
           THEN /\ Len(all_posts) <= max_posts.val
                /\ all_posts = Prefix(Served(Len(apiLog)), max_posts.val)
           ELSE all_posts = Served(Len(apiLog))

====
